---- MODULE Spec2Model ----
(***************************************************************************)
(* Terrashark: organisms (Tree, Goober) living on a TileMap.               *)
(*                                                                         *)
(* Units.  An organism's clock (age, dt, time_till_move) counts logic      *)
(* steps: one unit is LOGIC_DT = 1/LOGIC_FPS of the source's time unit.    *)
(* A genome keeps age and max_age in the source's unit; they are scaled by *)
(* LOGIC_FPS where they meet the clock.  Energy, hunger and thirst are in  *)
(* the source's units; the genomes drawn below make                        *)
(* every product with 0.05, 0.1, 0.2 an integer, and a comparison with a   *)
(* fraction of a trait (x < e * 0.75) is cross-multiplied (4x < 3e).       *)
(*                                                                         *)
(* A call that raises is a result with exc # "none"; the state it leaves   *)
(* is the state at the raise (Python keeps the assignments made before).   *)
(***************************************************************************)
EXTENDS Integers, Sequences, FiniteSets, TLC

VARIABLES org, occ, exc, last, calls, trees, goobers, pc, snap, idx, log, start

vars == <<org, occ, exc, last, calls, trees, goobers, pc, snap, idx, log, start>>

world == <<org, occ>>
driver == <<trees, goobers, pc, snap, idx, log, start>>

(***************************************************************************)
(* Bounds of the model and constants of the program.                       *)
(***************************************************************************)
TREE_COUNT == 2
GOOBER_COUNT == 1
MaxCalls == 4

LOGIC_FPS == 10
metabolism_constant == 5
DefaultLimit == 100
max_steps == 100
MaxApples == 3
MaxSeeds == 3
ReproduceAge == 5

LOGIC_DT == 1

NoTile == -1
NoOrg == 0

\* The map's size in tiles (width, height).
MAP_SIZE == <<2, 2>>
Width == MAP_SIZE[1]
Height == MAP_SIZE[2]

Tiles == 0 .. (Width * Height - 1)

Min(a, b) == IF a < b THEN a ELSE b
Max(a, b) == IF a > b THEN a ELSE b

\* list.remove(x): drops the first occurrence (callers check presence).
RECURSIVE ListRemove(_, _)
ListRemove(s, x) ==
    IF s = <<>> THEN <<>>
    ELSE IF Head(s) = x THEN Tail(s)
    ELSE <<Head(s)>> \o ListRemove(Tail(s), x)

InList(s, x) == \E i \in 1 .. Len(s) : s[i] = x

(***************************************************************************)
(* Genome (base.py).                                                       *)
(***************************************************************************)
\* x ** 0.75 and x ** 0.5 on the perfect powers the genomes below use.
Pow34(x) == LET r == CHOOSE r \in 0 .. x : r * r * r * r = x IN r * r * r
Sqrt(x) == CHOOSE r \in 0 .. x : r * r = x

\* Genome.get_metabolism, per logic step (the source value times LOGIC_DT).
get_metabolism(size, hunger, thirst, speed, vision) ==
    (metabolism_constant * Pow34(size) * Sqrt(hunger * thirst))
        \div (speed * vision * LOGIC_FPS)

\* Genome.__init__: the threshold arguments hunger_max and thirst_max are
\* stored under the attribute names hunger and thirst.
Genome(species, speed, vision, hunger_max, thirst_max, max_age, reproductive_crit, size, fertility, energy, age) ==
    [species |-> species, speed |-> speed, vision |-> vision,
     hunger |-> hunger_max, thirst |-> thirst_max, max_age |-> max_age,
     reproductive_crit |-> reproductive_crit, size |-> size,
     fertility |-> fertility, age |-> age, energy |-> energy,
     metabolism |-> get_metabolism(size, hunger_max, thirst_max, speed, vision)]

\* getattr(obj, name, default) on an object given by its attributes.
getattr(obj, name, default) ==
    IF name \in DOMAIN obj THEN obj[name] ELSE default

Abs(x) == IF x < 0 THEN -x ELSE x

\* Genome.distance.  The value is the rational num / den, or infinity; each
\* relative difference is taken against self's own trait, and a trait of
\* self that is zero makes its term divide by zero.  The weights 2, 1.5, 1,
\* 0.5, 1, 1 are doubled in num and the final division by 6 is in den.
distance(self, other) ==
    LET g == Sqrt(self.hunger * self.thirst)
        P == self.speed * self.vision * g * self.max_age * self.reproductive_crit * self.size
        num == 4 * Abs(self.speed - other.speed) * (P \div self.speed)
                 + 3 * Abs(self.vision - other.vision) * (P \div self.vision)
                 + 2 * Abs(self.hunger - other.hunger) * (P \div g)
                 + 1 * Abs(self.max_age - other.max_age) * (P \div self.max_age)
                 + 2 * Abs(self.reproductive_crit - other.reproductive_crit) * (P \div self.reproductive_crit)
                 + 2 * Abs(self.size - other.size) * (P \div self.size)
    IN IF self.species # other.species
       THEN [exc |-> "none", inf |-> TRUE, num |-> 0, den |-> 1]
       ELSE IF P = 0
       THEN [exc |-> "ZeroDivisionError", inf |-> FALSE, num |-> 0, den |-> 1]
       ELSE [exc |-> "none", inf |-> FALSE, num |-> num, den |-> 12 * P]

\* Genome.can_reproduce: distance first, then energy, then age.
can_reproduce(self, partner) ==
    LET d == distance(self, partner) IN
    IF d.exc # "none" THEN [exc |-> d.exc, val |-> FALSE]
    ELSE IF d.inf \/ d.num > self.reproductive_crit * d.den THEN [exc |-> "none", val |-> FALSE]
    ELSE IF self.energy < 20 \/ partner.energy < 20 THEN [exc |-> "none", val |-> FALSE]
    ELSE IF self.age < 1 \/ partner.age < 1 THEN [exc |-> "none", val |-> FALSE]
    ELSE [exc |-> "none", val |-> TRUE]

\* Genome.reproduce(self, partner).  For a pair that can reproduce, the
\* child's traits are drawn and Genome(...) is called with the keyword
\* hunger_rate, which Genome.__init__ does not have (TypeError); the two
\* energy deductions after the call are never reached.  ret is 0 for None.
Genome_reproduce(self, partner) ==
    LET c == can_reproduce(self, partner) IN
    IF c.exc # "none" THEN [self |-> self, partner |-> partner, exc |-> c.exc, ret |-> 0]
    ELSE IF ~c.val THEN [self |-> self, partner |-> partner, exc |-> "none", ret |-> 0]
    ELSE [self |-> self, partner |-> partner, exc |-> "TypeError", ret |-> 0]

(***************************************************************************)
(* TileData and TileMap (terrain.py).                                      *)
(***************************************************************************)
\* The biome of each tile is fixed at construction from its elevation; the
\* grid has one shallow-water tile (index 0) and grass elsewhere.
biome(t) == IF t = 0 THEN "shallow-water" ELSE "grass"

Water == {"deep-ocean", "shallow-water"}

\* TileData.place: append, returns 1.
place(oc, t, o) == [oc EXCEPT ![t] = Append(@, o)]

\* remove without the try: list.remove's ValueError reaches the caller.
remove_untried(oc, t, o) ==
    IF InList(oc[t], o)
    THEN [occ |-> [oc EXCEPT ![t] = ListRemove(@, o)], exc |-> "none", ret |-> 1]
    ELSE [occ |-> oc, exc |-> "ValueError", ret |-> 0]

\* TileData.remove: list.remove inside try; the ValueError of an absent
\* organism is caught and answered with -1.
remove(oc, t, o) ==
    IF InList(oc[t], o)
    THEN [occ |-> [oc EXCEPT ![t] = ListRemove(@, o)], exc |-> "none", ret |-> 1]
    ELSE [occ |-> oc, exc |-> "none", ret |-> -1]

\* Tile objects are their identities: 0 .. Width*Height-1 are the map's own
\* tiles, in the order of its list; the identities after them are the tiles
\* of a second map generated alike, each the equal in world_pos and biome
\* of the tile at the same index.
ForeignTiles == (Width * Height) .. (2 * Width * Height - 1)

TileValue(t) ==
    LET i == t % (Width * Height) IN
    [world_pos |-> <<(i % Width) - 1, (i \div Width) - 1>>, biome |-> biome(i)]

\* A find that compares the tiles' contents.
find_by_value(t) ==
    IF \E i \in Tiles : TileValue(i) = TileValue(t)
    THEN CHOOSE i \in Tiles : TileValue(i) = TileValue(t) /\ \A j \in Tiles : TileValue(j) = TileValue(t) => i <= j
    ELSE -1

\* TileMap.find: index of the tile object (t is tile), -1 when it is not
\* in the map.
find(t) == IF t \in Tiles THEN t ELSE -1

\* get_tile without the bounds test: the list is indexed with y*width + x,
\* and Python counts a negative index from the end.
get_tile_unchecked(x, y) ==
    LET loc == y * Width + x
        n == Width * Height
    IN IF loc >= n \/ loc < -n THEN [exc |-> "IndexError", val |-> NoTile]
       ELSE [exc |-> "none", val |-> (loc + n) % n]

\* TileMap.get_tile.
get_tile(x, y) ==
    IF ~(0 <= x /\ x < Width /\ 0 <= y /\ y < Height)
    THEN [exc |-> "IndexError", val |-> NoTile]
    ELSE [exc |-> "none", val |-> y * Width + x]

\* TileMap.get_neighbour(tile, range): the parameter named range hides the
\* builtin, so the loop header range(-range, range + 1) calls an int and
\* raises TypeError on every call that gets past the find check.
get_neighbour(t, rng) ==
    IF find(t) = -1
    THEN [exc |-> "ValueError", val |-> <<>>]
    ELSE [exc |-> "TypeError", val |-> <<>>]

(***************************************************************************)
(* Organisms (Organism.py, tree.py, goober.py).  A world w is the record   *)
(* [org, occ]: the organisms by id and each tile's occupancy list.  A call *)
(* returns [w, exc, ret]; ret is 0 for None.                               *)
(***************************************************************************)
Ok(w, ret) == [w |-> w, exc |-> "none", ret |-> ret]
Raise(w, e) == [w |-> w, exc |-> e, ret |-> 0]

SetOrg(w, o, s) == [w EXCEPT !.org[o] = s]

\* OrganismSprite.__init__: age and energy are copied from the genome.
OrganismSprite_init(kind, genome, tile) ==
    [kind |-> kind, genome |-> genome, species |-> genome.species,
     tile |-> tile, age |-> genome.age * LOGIC_FPS, energy |-> genome.energy,
     hunger |-> 0, thirst |-> 0, time_till_move |-> 0,
     target |-> NoTile, path |-> <<>>, alive |-> TRUE,
     apples |-> 0, seeds |-> 0, partner |-> NoOrg, task |-> "",
     memory_water |-> NoTile, memory_partner |-> NoTile,
     memory_food |-> NoTile]

\* pygame.sprite.Sprite.kill: removes the sprite from the sprite groups it
\* is in; no organism is ever added to a group, and tile occupancy and the
\* driver's lists are not groups.
kill(w, o) == w

\* A constructor that registers the tree, followed by a caller that registers
\* it again.
Tree_init_twice(w, o, genome, tile, apples) ==
    [org |-> (o :> [OrganismSprite_init("tree", genome, tile) EXCEPT !.apples = apples]) @@ w.org,
     occ |-> IF tile # NoTile THEN place(place(w.occ, tile, o), tile, o) ELSE w.occ]

\* The constructors register the organism in its tile's occupancy.
Tree_init(w, o, genome, tile, apples) ==
    [org |-> (o :> [OrganismSprite_init("tree", genome, tile) EXCEPT !.apples = apples]) @@ w.org,
     occ |-> IF tile # NoTile THEN place(w.occ, tile, o) ELSE w.occ]

\* A constructor that does not register the organism in its tile.
Goober_init_unplaced(w, o, genome, tile) ==
    [org |-> (o :> OrganismSprite_init("goober", genome, tile)) @@ w.org,
     occ |-> w.occ]

Goober_init(w, o, genome, tile) ==
    [org |-> (o :> OrganismSprite_init("goober", genome, tile)) @@ w.org,
     occ |-> IF tile # NoTile THEN place(w.occ, tile, o) ELSE w.occ]

\* The physiology without the floors at 0.
Metabolise_unfloored(s, dt) ==
    LET cost == s.genome.metabolism * dt IN
    [s EXCEPT !.time_till_move = @ - dt,
              !.age = @ + dt,
              !.energy = @ - cost,
              !.hunger = @ + cost,
              !.thirst = @ + cost]

\* OrganismSprite.update, lines 85-103: cooldown, aging, metabolism, clamps.
Metabolise(s, dt) ==
    LET cost == s.genome.metabolism * dt IN
    [s EXCEPT !.time_till_move = IF @ - dt > 0 THEN @ - dt ELSE 0,
              !.age = @ + dt,
              !.energy = Max(0, @ - cost),
              !.hunger = Max(0, @ + cost),
              !.thirst = Max(0, @ + cost)]

\* OrganismSprite.update, lines 106-111.  The genome keeps its thresholds
\* under the names hunger and thirst, so both getattr calls yield 100.
DeathConditions(s) ==
    \/ s.age >= s.genome.max_age * LOGIC_FPS
    \/ s.energy <= 0
    \/ s.hunger > getattr(s.genome, "hunger_max", DefaultLimit)
    \/ s.thirst > getattr(s.genome, "thirst_max", DefaultLimit)

DeathCheck(s) == IF DeathConditions(s) THEN [s EXCEPT !.alive = FALSE] ELSE s

(***************************************************************************)
(* Tree.                                                                   *)
(***************************************************************************)
\* get_task with the reproduce test ahead of the energy test.
Tree_get_task_reproduce_first(s) ==
    IF s.seeds < MaxSeeds /\ s.age > ReproduceAge * LOGIC_FPS THEN "reproduce"
    ELSE IF 4 * s.energy < 3 * s.genome.energy THEN "photosynthesis"
    ELSE "idle"

\* Tree.get_task: energy first, then seeds and age; death is left to update.
Tree_get_task(s) ==
    IF 4 * s.energy < 3 * s.genome.energy THEN "photosynthesis"
    ELSE IF s.seeds < MaxSeeds /\ s.age > ReproduceAge * LOGIC_FPS THEN "reproduce"
    ELSE "idle"

\* Photosynthesis that grows an apple every time.
Tree_eat_uncapped(w, o) ==
    LET s == w.org[o]
        energy_gain == s.genome.energy \div 10
    IN Ok(SetOrg(w, o,
            [s EXCEPT !.energy = Min(s.genome.energy, @ + energy_gain),
                      !.hunger = Max(0, @ - energy_gain \div 2),
                      !.thirst = Max(0, @ - energy_gain \div 2),
                      !.apples = @ + 1]), 0)

\* Tree.eat: photosynthesis.
Tree_eat(w, o) ==
    LET s == w.org[o]
        energy_gain == s.genome.energy \div 10
    IN Ok(SetOrg(w, o,
            [s EXCEPT !.energy = Min(s.genome.energy, @ + energy_gain),
                      !.hunger = Max(0, @ - energy_gain \div 2),
                      !.thirst = Max(0, @ - energy_gain \div 2),
                      !.apples = IF @ < MaxApples THEN @ + 1 ELSE @]), 0)

\* An eaten that kills the tree whatever it holds.
Tree_eaten_kills(w, o) ==
    Ok(kill(SetOrg(w, o, [w.org[o] EXCEPT !.alive = FALSE]), o), -1)

\* Tree.eaten: an apple if there is one, else the tree's life.
Tree_eaten(w, o) ==
    LET s == w.org[o] IN
    IF s.apples > 0
    THEN Ok(SetOrg(w, o, [s EXCEPT !.apples = @ - 1]), 1)
    ELSE Ok(kill(SetOrg(w, o, [s EXCEPT !.alive = FALSE]), o), -1)

\* Tree.reproduce: past a successful neighbour query and site selection the
\* call self.genome.reproduce() lacks the partner argument (TypeError).
Tree_reproduce(w, o) ==
    LET s == w.org[o]
        n == get_neighbour(s.tile, s.genome.vision)
        valid_tiles == SelectSeq(n.val, LAMBDA t : biome(t) \notin Water /\ Len(w.occ[t]) = 0)
    IN IF s.seeds >= MaxSeeds \/ s.tile = NoTile THEN Ok(w, 0)
       ELSE IF n.exc # "none" THEN Raise(w, n.exc)
       ELSE IF n.val = <<>> THEN Ok(w, 0)
       ELSE IF valid_tiles = <<>> THEN Ok(w, 0)
       ELSE Raise(w, "TypeError")

Tree_do_task(w, o, task) ==
    IF task = "photosynthesis" THEN Tree_eat(w, o)
    ELSE IF task = "reproduce" THEN Tree_reproduce(w, o)
    ELSE Ok(w, 0)

\* OrganismSprite.eaten, inherited by Goober.
OrganismSprite_eaten(w, o) ==
    Ok(kill(SetOrg(w, o, [w.org[o] EXCEPT !.alive = FALSE]), o), 0)

eaten(w, o) ==
    IF w.org[o].kind = "tree" THEN Tree_eaten(w, o) ELSE OrganismSprite_eaten(w, o)

(***************************************************************************)
(* Movement (OrganismSprite).                                              *)
(***************************************************************************)
\* OrganismSprite.get_target calls get_neighbour(self.tile, rang=...): the
\* keyword rang is no parameter of get_neighbour, so the call raises
\* TypeError before the map is consulted.
get_target(w, o) == [exc |-> "TypeError", val |-> NoTile]

\* OrganismSprite.get_path with target=None.  Past the two early returns the
\* path is reset and the search asks the map for get_adjacent, an attribute
\* TileMap does not have (AttributeError).
get_path(w, o) ==
    LET s == w.org[o] IN
    IF s.target = NoTile THEN Ok(SetOrg(w, o, [s EXCEPT !.path = <<>>]), 0)
    ELSE IF s.tile = s.target
    THEN Ok(SetOrg(w, o, [s EXCEPT !.path = <<>>, !.target = NoTile]), 0)
    ELSE Raise(SetOrg(w, o, [s EXCEPT !.path = <<>>]), "AttributeError")

\* A move without the cooldown gate: the target is taken and the step tried
\* whatever time_till_move holds.
move_ungated(w, o, target) ==
    LET s == w.org[o]
        s1 == IF target # NoTile THEN [s EXCEPT !.target = target] ELSE s
        w1 == SetOrg(w, o, s1)
    IN IF ~s.alive THEN Ok(w, 0)
       ELSE IF Len(s1.path) = 0
       THEN IF s1.target = NoTile THEN Raise(w1, get_target(w1, o).exc) ELSE get_path(w1, o)
       ELSE Raise(SetOrg(w1, o, [s1 EXCEPT !.path = Tail(@),
                                          !.target = IF @ = NoTile THEN s1.path[Len(s1.path)] ELSE @]),
                  "AttributeError")

\* OrganismSprite.move.  The step itself (lines 195-198) pops the path and
\* calls self.map.move, an attribute TileMap does not have (AttributeError),
\* so lines 197-205 (tile, position, cooldown) are never executed.
RECURSIVE move(_, _, _)
move(w, o, target) ==
    LET s == w.org[o]
        s1 == IF target # NoTile THEN [s EXCEPT !.target = target] ELSE s
        w1 == SetOrg(w, o, s1)
    IN IF ~s.alive THEN Ok(w, 0)
       ELSE IF s.time_till_move > 0 THEN Ok(w, 0)
       ELSE IF Len(s1.path) = 0
       THEN IF s1.target = NoTile
            THEN LET t == get_target(w1, o) IN
                 IF t.exc # "none" THEN Raise(w1, t.exc)
                 ELSE LET p == get_path(SetOrg(w1, o, [s1 EXCEPT !.target = t.val]), o) IN
                      IF p.exc # "none" THEN p ELSE move(p.w, o, NoTile)
            ELSE LET p == get_path(w1, o) IN
                 IF p.exc # "none" THEN p ELSE move(p.w, o, NoTile)
       ELSE IF s1.target = NoTile
            THEN move(SetOrg(w1, o, [s1 EXCEPT !.target = s1.path[Len(s1.path)]]), o, NoTile)
            ELSE Raise(SetOrg(w1, o, [s1 EXCEPT !.path = Tail(@)]), "AttributeError")

\* OrganismSprite.wander.
wander(w, o) == move(w, o, NoTile)

(***************************************************************************)
(* Goober.                                                                 *)
(***************************************************************************)
\* get_task with the thirst test ahead of the hunger test.
Goober_get_task_drink_first(s) ==
    IF 5 * s.thirst > 3 * s.genome.thirst THEN "drink"
    ELSE IF 5 * s.hunger > 3 * s.genome.hunger THEN "eat"
    ELSE IF 5 * s.energy > 4 * s.genome.energy /\ s.age > ReproduceAge * LOGIC_FPS THEN "reproduce"
    ELSE "wander"

\* Goober.get_task: the first test that holds, in the order written.
Goober_get_task(s) ==
    IF 5 * s.hunger > 3 * s.genome.hunger THEN "eat"
    ELSE IF 5 * s.thirst > 3 * s.genome.thirst THEN "drink"
    ELSE IF 5 * s.energy > 4 * s.genome.energy /\ s.age > ReproduceAge * LOGIC_FPS THEN "reproduce"
    ELSE "wander"

\* Goober.find_organism: the first organism of the wanted class in the
\* neighbourhood scan, (None, None) when there is none.
find_organism(w, o, kind) ==
    LET s == w.org[o]
        n == get_neighbour(s.tile, s.genome.vision)
        hits == {p \in (1 .. Len(n.val)) \X (1 .. Cardinality(DOMAIN w.org)) :
                    /\ p[2] <= Len(w.occ[n.val[p[1]]])
                    /\ w.org[w.occ[n.val[p[1]]][p[2]]].kind = kind}
        first == CHOOSE p \in hits : \A q \in hits :
                    p[1] < q[1] \/ (p[1] = q[1] /\ p[2] <= q[2])
    IN IF n.exc # "none" THEN [exc |-> n.exc, org |-> NoOrg, tile |-> NoTile]
       ELSE IF hits = {} THEN [exc |-> "none", org |-> NoOrg, tile |-> NoTile]
       ELSE [exc |-> "none", org |-> w.occ[n.val[first[1]]][first[2]], tile |-> n.val[first[1]]]

\* An eat that gains a fifth of the energy the target has at the moment.
Goober_eat_current(w, o, target) ==
    LET s == w.org[o]
        energy_gain == w.org[target].energy \div 5
        w1 == SetOrg(w, o, [s EXCEPT !.energy = Min(s.genome.energy, @ + energy_gain),
                                     !.hunger = Max(0, @ - energy_gain)])
        result == eaten(w1, target)
    IN IF target = NoOrg \/ ~w.org[target].alive THEN Ok(w, 0)
       ELSE IF result.ret = -1
       THEN Ok(SetOrg(result.w, o, [result.w.org[o] EXCEPT !.memory_food = NoTile]), 0)
       ELSE Ok(result.w, 0)

\* An eat that adds the gain without the cap at the genome's energy.
Goober_eat_uncapped(w, o, target) ==
    LET s == w.org[o]
        energy_gain == w.org[target].genome.energy \div 5
        w1 == SetOrg(w, o, [s EXCEPT !.energy = @ + energy_gain,
                                     !.hunger = Max(0, @ - energy_gain)])
        result == eaten(w1, target)
    IN IF target = NoOrg \/ ~w.org[target].alive THEN Ok(w, 0)
       ELSE IF result.ret = -1
       THEN Ok(SetOrg(result.w, o, [result.w.org[o] EXCEPT !.memory_food = NoTile]), 0)
       ELSE Ok(result.w, 0)

\* Goober.eat: the gain is a fifth of the target's genome energy.
Goober_eat(w, o, target) ==
    LET s == w.org[o]
        energy_gain == w.org[target].genome.energy \div 5
        w1 == SetOrg(w, o, [s EXCEPT !.energy = Min(s.genome.energy, @ + energy_gain),
                                     !.hunger = Max(0, @ - energy_gain)])
        result == eaten(w1, target)
    IN IF target = NoOrg \/ ~w.org[target].alive THEN Ok(w, 0)
       ELSE IF result.ret = -1
       THEN Ok(SetOrg(result.w, o, [result.w.org[o] EXCEPT !.memory_food = NoTile]), 0)
       ELSE Ok(result.w, 0)

\* Goober.reproduce: as Tree.reproduce, the genome call lacks its argument.
Goober_reproduce(w, o, partner) ==
    LET s == w.org[o]
        n == get_neighbour(s.tile, s.genome.vision)
        valid_tiles == SelectSeq(n.val, LAMBDA t : biome(t) \notin Water /\ Len(w.occ[t]) = 0)
    IN IF 10 * s.energy < 7 * s.genome.energy THEN Ok(w, 0)
       ELSE IF n.exc # "none" THEN Raise(w, n.exc)
       ELSE IF n.val = <<>> THEN Ok(w, 0)
       ELSE IF valid_tiles = <<>> THEN Ok(w, 0)
       ELSE Raise(w, "TypeError")

Goober_do_task(w, o, task) ==
    LET s == [w.org[o] EXCEPT !.task = task]
        w1 == SetOrg(w, o, s)
    IN IF task = "eat"
       THEN LET f == find_organism(w1, o, "tree") IN
            IF f.exc # "none" THEN Raise(w1, f.exc)
            ELSE IF f.org # NoOrg
            THEN LET m == move(SetOrg(w1, o, [s EXCEPT !.memory_food = f.tile]), o, f.tile) IN
                 IF m.exc # "none" THEN m ELSE Goober_eat(m.w, o, f.org)
            ELSE IF s.memory_food # NoTile THEN move(w1, o, s.memory_food)
            ELSE Ok(w1, 0)
       ELSE IF task = "drink"
       THEN IF s.memory_water # NoTile
            THEN LET m == move(w1, o, s.memory_water) IN
                 IF m.exc # "none" THEN m
                 ELSE Ok(SetOrg(m.w, o, [m.w.org[o] EXCEPT
                            !.thirst = Max(0, @ - s.genome.energy \div 10)]), 0)
            ELSE Ok(SetOrg(w1, o, [s EXCEPT !.thirst = Max(0, @ - s.genome.energy \div 20)]), 0)
       ELSE IF task = "reproduce"
       THEN IF s.partner # NoOrg THEN Goober_reproduce(w1, o, s.partner)
            ELSE LET f == find_organism(w1, o, "goober") IN
                 IF f.exc # "none" THEN Raise(w1, f.exc)
                 ELSE IF f.org # NoOrg /\ f.org # o
                 THEN LET s2 == [s EXCEPT !.partner = f.org, !.memory_partner = f.tile]
                          m == move(SetOrg(w1, o, s2), o, f.tile)
                      IN IF m.exc # "none" THEN m ELSE Goober_reproduce(m.w, o, f.org)
                 ELSE IF s.memory_partner # NoTile THEN move(w1, o, s.memory_partner)
                 ELSE Ok(w1, 0)
       ELSE IF task = "wander" THEN wander(w1, o)
       ELSE Ok(w1, 0)

(***************************************************************************)
(* Dispatch on the organism's class, and the shared update.                *)
(***************************************************************************)
get_task(s) == IF s.kind = "tree" THEN Tree_get_task(s) ELSE Goober_get_task(s)

do_task(w, o, task) ==
    IF w.org[o].kind = "tree" THEN Tree_do_task(w, o, task) ELSE Goober_do_task(w, o, task)

reproduce(w, o, partner) ==
    IF w.org[o].kind = "tree" THEN Tree_reproduce(w, o) ELSE Goober_reproduce(w, o, partner)

\* update with the liveness flag recomputed by every call and no early return.
update_recheck(w, o, dt) ==
    LET m == Metabolise(w.org[o], dt)
        checked == SetOrg(w, o, [m EXCEPT !.alive = ~DeathConditions(m)])
        r == do_task(checked, o, get_task(checked.org[o]))
    IN [w |-> r.w, exc |-> r.exc, ret |-> 0]

\* update without the early return for the dead.
update_unguarded(w, o, dt) ==
    LET checked == SetOrg(w, o, DeathCheck(Metabolise(w.org[o], dt)))
        r == do_task(checked, o, get_task(checked.org[o]))
    IN [w |-> r.w, exc |-> r.exc, ret |-> 0]

\* OrganismSprite.update: the dead return at once; the living are aged and
\* metabolised, checked for death, and then run one task whatever the check
\* found.  update returns None: a child returned by do_task is dropped.
update(w, o, dt) ==
    LET s == w.org[o]
        checked == SetOrg(w, o, DeathCheck(Metabolise(s, dt)))
        r == do_task(checked, o, get_task(checked.org[o]))
    IN IF ~s.alive THEN Ok(kill(w, o), 0)
       ELSE [w |-> r.w, exc |-> r.exc, ret |-> 0]

(***************************************************************************)
(* Genomes the organisms are built from.                                   *)
(***************************************************************************)
\* Trees: metabolism 10 per logic step; young trees of two life spans and a
\* mature tree (age 5, energy 200).
TreeGenomes ==
    {Genome("tree", 1, 1, 20, 20, 1, 20, 1, 20, 100, 0),
     Genome("tree", 1, 1, 20, 20, 2, 20, 1, 20, 100, 0),
     Genome("tree", 1, 1, 20, 20, 7, 20, 1, 20, 200, 5)}

\* Goobers: metabolism 10 per logic step; one with thresholds 10 and 10, one
\* that is thirsty at once and hungry late.
GooberGenomes ==
    {Genome("goober", 2, 2, 10, 10, 1, 10, 16, 10, 100, 0),
     Genome("goober", 1, 1, 400, 1, 1, 10, 1, 10, 100, 0)}

LandTiles == {t \in Tiles : biome(t) \notin Water}

EmptyWorld == [org |-> <<>>, occ |-> [t \in Tiles |-> <<>>]]

\* The dt values calls are made with: one logic step and half a time unit.
DTs == {LOGIC_DT, 5 * LOGIC_DT}

(***************************************************************************)
(* Calls made one at a time on a Tree (id 1) and a Goober (id 2) built on  *)
(* two land tiles: the organisms' interface used in any order.  last is    *)
(* the call just made: its name, receiver, argument, and whether the       *)
(* receiver was alive when it was made.                                    *)
(***************************************************************************)
W == [org |-> org, occ |-> occ]

\* arg and ret are a call's integer argument and result; a result that is
\* a string is in str, one that is a list in seq, and the arguments of a
\* call that takes several are in args.
NoCall == [op |-> "none", o |-> NoOrg, arg |-> 0, alive |-> FALSE, ret |-> 0, str |-> "", args |-> <<>>, seq |-> <<>>]

Init ==
    /\ \E tg \in TreeGenomes, gg \in GooberGenomes :
         LET w == Goober_init(Tree_init(EmptyWorld, 1, tg, 1, 0), 2, gg, 2) IN
         /\ org = w.org
         /\ occ = w.occ
    /\ exc = "none"
    /\ last = NoCall
    /\ calls = 0
    /\ trees = <<>>
    /\ goobers = <<>>
    /\ pc = "calls"
    /\ snap = <<>>
    /\ idx = 0
    /\ log = <<>>
    /\ start = {}

Return(res, op, o, arg) ==
    \E r \in {res} :
    /\ calls < MaxCalls
    /\ org' = r.w.org
    /\ occ' = r.w.occ
    /\ exc' = r.exc
    /\ last' = [NoCall EXCEPT !.op = op, !.o = o, !.arg = arg, !.alive = org[o].alive, !.ret = r.ret]
    /\ calls' = calls + 1
    /\ UNCHANGED driver

CallUpdate ==
    \E o \in DOMAIN org, dt \in DTs : Return(update(W, o, dt), "update", o, dt)

\* task = get_task(); do_task(task)
CallTask ==
    \E o \in DOMAIN org : Return(do_task(W, o, get_task(org[o])), "do_task", o, 0)

CallMove ==
    \E o \in DOMAIN org, target \in {NoTile, 3} : Return(move(W, o, target), "move", o, target)

CallPhotosynthesis ==
    \E o \in DOMAIN org : org[o].kind = "tree" /\ Return(Tree_eat(W, o), "photosynthesis", o, 0)

CallEat ==
    \E o \in DOMAIN org, target \in DOMAIN org :
        /\ org[o].kind = "goober"
        /\ org[target].kind = "tree"
        /\ Return(Goober_eat(W, o, target), "eat", o, target)

CallEaten ==
    \E o \in DOMAIN org : Return(eaten(W, o), "eaten", o, 0)

CallReproduce ==
    \E o \in DOMAIN org : Return(reproduce(W, o, NoOrg), "reproduce", o, 0)

Next ==
    \/ CallUpdate
    \/ CallTask
    \/ CallMove
    \/ CallPhotosynthesis
    \/ CallEat
    \/ CallEaten
    \/ CallReproduce

Spec == Init /\ [][Next]_vars

(***************************************************************************)
(* Properties of the organisms' interface (Spec).                          *)
(***************************************************************************)
\* A step that is a call received by organism o.
CallOn(o) == calls' = calls + 1 /\ last'.o = o

\* C1: death is terminal: an organism whose alive flag is false in a state
\* has it false after every call, whichever call it is.
C1_DeathIsTerminal ==
    [][\A o \in DOMAIN org : ~org[o].alive => ~org'[o].alive]_vars

\* A dead organism has just been asked to run a task, and is still dead.
C1_Witness ==
    \E o \in DOMAIN org :
        ~org[o].alive /\ last.o = o /\ ~last.alive /\ last.op \in {"do_task", "move", "reproduce"}

\* The death rule as the specification words it: the thresholds are the
\* genome's own.
ThresholdDeath(s) ==
    \/ s.age >= s.genome.max_age * LOGIC_FPS
    \/ s.energy <= 0
    \/ s.hunger > s.genome.hunger
    \/ s.thirst > s.genome.thirst

\* C2: an update of a live organism leaves it dead exactly when the values
\* its aging and metabolism leave meet the death rule with the genome's
\* hunger and thirst thresholds.
C2_DeathIffThresholds ==
    [][\A o \in DOMAIN org :
          (CallOn(o) /\ last'.op = "update" /\ last'.alive)
              => (~org'[o].alive <=> ThresholdDeath(Metabolise(org[o], last'.arg)))]_vars

\* What a task can change of the organism that runs it.
TaskFields(s) == <<s.energy, s.hunger, s.thirst, s.apples, s.seeds, s.tile>>

Others(f, o) == [p \in DOMAIN f \ {o} |-> f[p]]

\* C3: a dead organism runs no task effect.  A call it receives while dead
\* (other than being eaten) changes none of its energy, hunger, thirst,
\* apples, seeds and tile, no other organism and no occupancy; the update
\* that kills it leaves those fields as aging and metabolism left them.
C3_DeadRunNoTask ==
    [][\A o \in DOMAIN org :
          /\ (CallOn(o) /\ ~org[o].alive /\ last'.op # "eaten")
                => /\ TaskFields(org'[o]) = TaskFields(org[o])
                   /\ Others(org', o) = Others(org, o)
                   /\ occ' = occ
          /\ (CallOn(o) /\ last'.op = "update" /\ org[o].alive /\ ~org'[o].alive)
                => /\ TaskFields(org'[o]) = TaskFields(Metabolise(org[o], last'.arg))
                   /\ Others(org', o) = Others(org, o)
                   /\ occ' = occ]_vars

\* C4: update on a dead organism changes nothing, for every dt, and raises
\* nothing; so a second call leaves the state of the first.
C4_DeadUpdateIsNoOp ==
    \A o \in DOMAIN org : \A dt \in DTs :
        ~org[o].alive =>
            LET r == update(W, o, dt) IN
            /\ r.w = W
            /\ r.exc = "none"
            /\ update(r.w, o, dt).w = r.w

\* update has just been called on an organism that was already dead.
C4_Witness ==
    \E o \in DOMAIN org : ~org[o].alive /\ last.op = "update" /\ last.o = o /\ ~last.alive

\* The places (tile, index) at which o is listed in an occupancy list.
Places(o) == {p \in Tiles \X (1 .. Cardinality(DOMAIN org)) : p[2] <= Len(occ[p[1]]) /\ occ[p[1]][p[2]] = o}

\* C6: every organism is listed in at most one tile's occupancy, once.
C6_SingleOccupancy ==
    \A o \in DOMAIN org : Cardinality(Places(o)) <= 1

\* After a move call and a death, the organisms are each listed once.
C6_Witness ==
    /\ last.op = "move"
    /\ \E o \in DOMAIN org : ~org[o].alive
    /\ \A o \in DOMAIN org : Cardinality(Places(o)) = 1

\* The number of eaten calls, one after the other, that a live tree takes
\* until it is dead.
RECURSIVE EatenCallsToDie(_, _)
EatenCallsToDie(w, o) ==
    IF ~w.org[o].alive THEN 0 ELSE 1 + EatenCallsToDie(Tree_eaten(w, o).w, o)

\* C18: for every live tree, an eaten call takes exactly one apple and
\* leaves the tree alive when it holds apples, kills it when it holds none,
\* and so a tree holding n apples is dead after exactly n + 1 eaten calls.
C18_ApplesBeforeLife ==
    \A o \in DOMAIN org :
        (org[o].kind = "tree" /\ org[o].alive) =>
            LET r == Tree_eaten(W, o).w.org[o] IN
            /\ org[o].apples > 0 => (r.apples = org[o].apples - 1 /\ r.alive)
            /\ org[o].apples = 0 => ~r.alive
            /\ EatenCallsToDie(W, o) = org[o].apples + 1

\* A tree holding at least two apples has just been eaten from: it lost one
\* apple and lives.
C18_Witness ==
    /\ last.op = "eaten" /\ pc = "calls"
    /\ last.alive /\ last.ret = 1
    /\ org[last.o].kind = "tree" /\ org[last.o].alive /\ org[last.o].apples >= 1

\* The plant policy as the specification words it, die first.
PlantOver(s) ==
    \/ s.thirst > s.genome.thirst
    \/ s.hunger > s.genome.hunger
    \/ s.age > s.genome.max_age * LOGIC_FPS

PlantPolicyNoDie(s) ==
    CASE 4 * s.energy < 3 * s.genome.energy -> "photosynthesis"
      [] 4 * s.energy >= 3 * s.genome.energy /\ s.seeds < 3 /\ s.age > 5 * LOGIC_FPS -> "reproduce"
      [] OTHER -> "idle"

PlantPolicy(s) == IF PlantOver(s) THEN "die" ELSE PlantPolicyNoDie(s)

\* C23 as claimed: a plant's get_task answers die when thirst, hunger or
\* age is over its threshold, else photosynthesis if energy < 75% of max,
\* else reproduce if seeds < 3 and age > 5, else idle.
C23_PlantTaskOrder ==
    \A o \in DOMAIN org :
        org[o].kind = "tree" => Tree_get_task(org[o]) = PlantPolicy(org[o])

\* C23 as amended: a plant's get_task answers photosynthesis if energy <
\* 75% of max, else reproduce if seeds < 3 and age > 5, else idle; it has
\* no die answer and does not look at thirst, hunger or the age limit.
C23_PlantTaskOrderNoDie ==
    \A o \in DOMAIN org :
        org[o].kind = "tree" => Tree_get_task(org[o]) = PlantPolicyNoDie(org[o])

\* A live tree that is short of energy and also old enough to reproduce
\* (the order decides), and whose hunger is over its threshold.
C23_Witness ==
    \E o \in DOMAIN org :
        /\ org[o].kind = "tree" /\ org[o].alive /\ pc = "calls" /\ calls > 0
        /\ 4 * org[o].energy < 3 * org[o].genome.energy
        /\ org[o].seeds < 3 /\ org[o].age > 5 * LOGIC_FPS
        /\ org[o].hunger > org[o].genome.hunger

\* What an eat call must leave of eater s and plant t for a gain g.
Eaten(g, s, t, s2, t2, w) ==
    /\ s2.energy = Min(s.genome.energy, s.energy + g)
    /\ s2.hunger = Max(0, s.hunger - g)
    /\ t2 = Tree_eaten(w, t).w.org[t]

\* C24 as claimed: a herbivore that eats a live plant gains g = 0.2 * the
\* plant's energy (capped at its genome's energy) and loses g of hunger
\* (floored at 0), and the plant is eaten once; eating a plant that is not
\* alive changes nothing.
C24_EatGain ==
    [][\A o \in DOMAIN org :
          (CallOn(o) /\ last'.op = "eat")
          => LET t == last'.arg IN
             IF org[t].alive
             THEN Eaten(org[t].energy \div 5, org[o], t, org'[o], org'[t], W) /\ exc' = "none"
             ELSE org' = org /\ occ' = occ /\ exc' = "none"]_vars

\* C24 as amended: the gain is g = 0.2 * the plant's genome energy.
C24_EatGainOfGenomeEnergy ==
    [][\A o \in DOMAIN org :
          (CallOn(o) /\ last'.op = "eat")
          => LET t == last'.arg IN
             IF org[t].alive
             THEN Eaten(org[t].genome.energy \div 5, org[o], t, org'[o], org'[t], W) /\ exc' = "none"
             ELSE org' = org /\ occ' = occ /\ exc' = "none"]_vars

\* A herbivore has just eaten from a live plant whose energy is below its
\* genome's, and was neither filled up nor left without hunger.
C24_Witness ==
    /\ last.op = "eat" /\ pc = "calls"
    /\ org[last.arg].alive /\ org[last.arg].energy < org[last.arg].genome.energy
    /\ org[last.o].energy < org[last.o].genome.energy
    /\ org[last.o].hunger > 0

\* C26: every tree holds between 0 and 3 apples; photosynthesis adds one
\* apple exactly when it holds fewer than 3, and being eaten leaves at
\* least 0.
C26_ApplesInRange ==
    \A o \in DOMAIN org :
        org[o].kind = "tree" =>
            /\ org[o].apples \in 0 .. 3
            /\ Tree_eat(W, o).w.org[o].apples = (IF org[o].apples < 3 THEN org[o].apples + 1 ELSE 3)
            /\ Tree_eaten(W, o).w.org[o].apples >= 0

\* A tree that holds 3 apples has just photosynthesised.
C26_Witness ==
    /\ last.op = "photosynthesis" /\ pc = "calls"
    /\ org[last.o].apples = 3

MovePaths == {<<>>, <<3>>, <<2, 3>>, <<0, 2, 3>>}

MoveTargets == {NoTile, 1, 3}

\* Cooldowns left by an earlier step, in logic steps.
MoveCooldowns == {0, 3, 10}

\* The goobers of GooberGenomes and a mature one (age 6, life span 8) of
\* energy 40.
MoveGenomes == GooberGenomes \cup {Genome("goober", 2, 2, 10, 10, 8, 10, 16, 10, 40, 6)}

MoveInit ==
    /\ \E gg \in MoveGenomes, path \in MovePaths, target \in MoveTargets, wait \in MoveCooldowns :
         LET w == Goober_init(EmptyWorld, 1, gg, 1) IN
         /\ org = [w.org EXCEPT ![1].path = path, ![1].target = target, ![1].time_till_move = wait]
         /\ occ = w.occ
    /\ exc = "none"
    /\ last = NoCall
    /\ calls = 0
    /\ trees = <<>>
    /\ goobers = <<>>
    /\ pc = "moves"
    /\ snap = <<>>
    /\ idx = 0
    /\ log = <<>>
    /\ start = {}

CallWander ==
    \E o \in DOMAIN org : Return(wander(W, o), "wander", o, NoTile)

CallGetPath ==
    \E o \in DOMAIN org : Return(get_path(W, o), "get_path", o, org[o].target)

\* o.get_task(): the task is the result; nothing is assigned.
CallGetTask ==
    \E o \in DOMAIN org : \E task \in {get_task(org[o])} :
        /\ calls < MaxCalls
        /\ UNCHANGED <<org, occ, driver>>
        /\ exc' = "none"
        /\ last' = [NoCall EXCEPT !.op = "get_task", !.o = o, !.alive = org[o].alive, !.str = task]
        /\ calls' = calls + 1

MoveNext ==
    \/ CallMove
    \/ CallWander
    \/ CallGetPath
    \/ CallUpdate
    \/ CallGetTask

MoveSpec == MoveInit /\ [][MoveNext]_vars

(***************************************************************************)
(* Properties of movement (MoveSpec).                                      *)
(***************************************************************************)
\* Tiles a and b are distinct and within radius 1 of each other.
Adjacent(a, b) ==
    /\ a # b
    /\ Abs((a % Width) - (b % Width)) <= 1
    /\ Abs((a \div Width) - (b \div Width)) <= 1

\* A path from from_tile to to_tile: it leaves out from_tile, starts on a
\* neighbour of it, steps from neighbour to neighbour and ends on to_tile.
ValidPath(from_tile, to_tile, path) ==
    /\ path # <<>>
    /\ \A i \in 1 .. Len(path) : path[i] # from_tile
    /\ Adjacent(from_tile, path[1])
    /\ \A i \in 2 .. Len(path) : Adjacent(path[i - 1], path[i])
    /\ path[Len(path)] = to_tile

\* The target a move call works towards: its argument, else the stored one.
MoveTarget(s, arg) == IF arg # NoTile THEN arg ELSE s.target

\* C11: a move call on a live organism with cooldown 0, a target and a
\* non-empty path raises nothing and moves it one tile: the path loses its
\* front tile, which becomes the organism's tile; the organism leaves the
\* old tile's occupancy and is in the new one's; the cooldown is
\* 1/genome.speed; and on arrival at the target with the path used up, the
\* target is cleared.
C11_MoveOneTile ==
    [][\A o \in DOMAIN org :
          (/\ CallOn(o) /\ last'.op = "move" /\ pc = "moves"
           /\ org[o].alive /\ org[o].time_till_move = 0
           /\ org[o].path # <<>> /\ MoveTarget(org[o], last'.arg) # NoTile)
          => LET next == Head(org[o].path) IN
             /\ exc' = "none"
             /\ org'[o].path = Tail(org[o].path)
             /\ org'[o].tile = next
             /\ InList(occ'[next], o)
             /\ next # org[o].tile => ~InList(occ'[org[o].tile], o)
             /\ org'[o].time_till_move * org[o].genome.speed = LOGIC_FPS
             /\ (next = MoveTarget(org[o], last'.arg) /\ Tail(org[o].path) = <<>>)
                    => org'[o].target = NoTile]_vars

\* C12: get_path returns (raises nothing) and leaves as the path either the
\* empty sequence, when there is no target or the organism is on it, or a
\* valid path from the organism's tile to the target.
C12_PathContract ==
    [][\A o \in DOMAIN org :
          (CallOn(o) /\ last'.op = "get_path" /\ pc = "moves")
          => /\ exc' = "none"
             /\ IF org[o].target = NoTile \/ org[o].target = org[o].tile
                THEN org'[o].path = <<>>
                ELSE ValidPath(org[o].tile, org[o].target, org'[o].path)]_vars

C14_MoveNeverFatal ==
    [][\A o \in DOMAIN org :
          (CallOn(o) /\ last'.op \in {"move", "wander"} /\ pc = "moves")
          => /\ exc' = "none"
             /\ (org[o].path = <<>> /\ org'[o].path = <<>>) => org'[o].tile = org[o].tile]_vars

\* The herbivore policy as the specification words it: the first that
\* applies of eat, drink, reproduce, wander.
HerbivorePolicy(s) ==
    CASE 5 * s.hunger > 3 * s.genome.hunger -> "eat"
      [] 5 * s.hunger <= 3 * s.genome.hunger /\ 5 * s.thirst > 3 * s.genome.thirst -> "drink"
      [] 5 * s.hunger <= 3 * s.genome.hunger /\ 5 * s.thirst <= 3 * s.genome.thirst
            /\ 5 * s.energy > 4 * s.genome.energy /\ s.age > 5 * LOGIC_FPS -> "reproduce"
      [] OTHER -> "wander"

\* C22: a herbivore's get_task returns the task the policy names (eat if
\* hunger > 60% of the hunger threshold, else drink if thirst > 60% of the
\* thirst threshold, else reproduce if energy > 80% of max and age > 5,
\* else wander) and changes nothing.
C22_HerbivoreTaskOrder ==
    [][\A o \in DOMAIN org :
          (CallOn(o) /\ last'.op = "get_task" /\ org[o].kind = "goober")
          => /\ last'.str = HerbivorePolicy(org[o])
             /\ exc' = "none"
             /\ org' = org /\ occ' = occ]_vars

\* get_task has just answered eat for a herbivore that is both hungry and
\* thirsty beyond 60%: the order decided.
C22_Witness ==
    /\ last.op = "get_task" /\ pc = "moves"
    /\ last.str = "eat"
    /\ 5 * org[last.o].thirst > 3 * org[last.o].genome.thirst

\* The physiology update(dt) applies before the death check, as the
\* specification words it.
Physiology(s, dt) ==
    [time_till_move |-> Max(0, s.time_till_move - dt),
     age |-> s.age + dt,
     energy |-> Max(0, s.energy - s.genome.metabolism * dt),
     hunger |-> s.hunger + s.genome.metabolism * dt,
     thirst |-> s.thirst + s.genome.metabolism * dt]

\* C25: an update(dt) of a live organism leaves cooldown max(0, cooldown -
\* dt) and age + dt, and, where the task it then runs touches none of them,
\* energy max(0, energy - cost), hunger + cost and thirst + cost with cost =
\* genome.metabolism * dt; and no organism's energy, hunger, thirst or
\* cooldown is ever negative.
C25_UpdatePhysiology ==
    [][/\ \A o \in DOMAIN org :
            (CallOn(o) /\ last'.op = "update" /\ last'.alive)
            => LET p == Physiology(org[o], last'.arg) IN
               /\ org'[o].time_till_move = p.time_till_move
               /\ org'[o].age = p.age
               /\ org'[o].task \notin {"drink", "photosynthesis"}
                     => /\ org'[o].energy = p.energy
                        /\ org'[o].hunger = p.hunger
                        /\ org'[o].thirst = p.thirst
       /\ \A o \in DOMAIN org' :
            /\ org'[o].energy >= 0 /\ org'[o].hunger >= 0
            /\ org'[o].thirst >= 0 /\ org'[o].time_till_move >= 0]_vars

\* An update has just charged a live organism more than the energy it had
\* and left a cooldown that is still running.
C25_Witness ==
    /\ last.op = "update" /\ pc = "moves" /\ last.alive
    /\ org[last.o].time_till_move > 0
    /\ org[last.o].energy = 0
    /\ org[last.o].genome.energy < org[last.o].genome.metabolism * last.arg

\* Squared Euclidean distance between two tiles (unit tile spacing).
Euclid2(a, b) ==
    ((a % Width) - (b % Width)) * ((a % Width) - (b % Width))
        + ((a \div Width) - (b \div Width)) * ((a \div Width) - (b \div Width))

\* The tiles a greedy step from cur may append: the target when it is a
\* neighbour, else the unvisited neighbours nearest to the target.
GreedySteps(cur, target, visited) ==
    IF Adjacent(cur, target) THEN {target}
    ELSE {t \in Tiles \ visited :
            /\ Adjacent(cur, t)
            /\ \A u \in Tiles \ visited : Adjacent(cur, u) => Euclid2(t, target) <= Euclid2(u, target)}

\* path is made of greedy steps from tile cur towards target.
RECURSIVE GreedyFrom(_, _, _, _)
GreedyFrom(cur, target, visited, path) ==
    \/ path = <<>>
    \/ /\ Head(path) \in GreedySteps(cur, target, visited \cup {cur})
       /\ GreedyFrom(Head(path), target, visited \cup {cur}, Tail(path))

\* C31: a path computation towards a target other than the organism's tile
\* appends at every step the target, if it is a neighbour of the current
\* tile, else the nearest unvisited neighbour; its first step is made, no
\* tile is twice in the path and the starting tile is not in it.
C31_GreedySteps ==
    [][\A o \in DOMAIN org :
          (/\ CallOn(o) /\ last'.op = "get_path" /\ pc = "moves"
           /\ org[o].target # NoTile /\ org[o].target # org[o].tile)
          => LET path == org'[o].path IN
             /\ path # <<>>
             /\ GreedyFrom(org[o].tile, org[o].target, {}, path)
             /\ \A i \in 1 .. Len(path) : path[i] # org[o].tile
             /\ \A i \in 1 .. Len(path) : \A j \in 1 .. Len(path) : path[i] = path[j] => i = j]_vars

\* C32: a move call on an organism that is dead or whose cooldown is
\* running changes nothing of any organism or tile, and raises nothing.
C32_GatedMoveIsNoOp ==
    [][\A o \in DOMAIN org :
          (/\ CallOn(o) /\ last'.op = "move" /\ pc = "moves"
           /\ (org[o].time_till_move > 0 \/ ~org[o].alive))
          => (org' = org /\ occ' = occ /\ exc' = "none")]_vars

\* move has just been called with a new target on a live organism that
\* holds a path and whose cooldown is running.
C32_Witness ==
    /\ last.op = "move" /\ pc = "moves"
    /\ last.alive /\ last.arg # NoTile
    /\ org[last.o].time_till_move > 0
    /\ org[last.o].path # <<>>
    /\ org[last.o].target # last.arg

\* C34: a live organism that has a tile is listed in the occupancy of that
\* tile and of no other.
C34_TileIffListed ==
    \A o \in DOMAIN org :
        (org[o].alive /\ org[o].tile # NoTile) =>
            \A t \in Tiles : (org[o].tile = t) <=> InList(occ[t], o)

\* A live organism has just tried a step along its path (the path lost its
\* front tile and the call raised), and it is listed on its tile.
C34_Witness ==
    /\ last.op = "move" /\ pc = "moves"
    /\ exc = "AttributeError"
    /\ org[last.o].alive
    /\ org[last.o].path = <<3>>
    /\ InList(occ[org[last.o].tile], last.o)

(***************************************************************************)
(* Calls on the map and its tiles (GridSpec), with a Tree on tile 1 and a  *)
(* Goober on tile 2.                                                       *)
(***************************************************************************)
GridInit ==
    /\ \E tg \in TreeGenomes, gg \in {g \in GooberGenomes : g.speed = 2} :
         LET w == Goober_init(Tree_init(EmptyWorld, 1, tg, 1, 0), 2, gg, 2) IN
         /\ org = w.org
         /\ occ = w.occ
    /\ exc = "none"
    /\ last = NoCall
    /\ calls = 0
    /\ trees = <<>>
    /\ goobers = <<>>
    /\ pc = "grid"
    /\ snap = <<>>
    /\ idx = 0
    /\ log = <<>>
    /\ start = {}

GridReturn(op, args, e, ret, seq) ==
    /\ calls < MaxCalls
    /\ exc' = e
    /\ last' = [NoCall EXCEPT !.op = op, !.args = args, !.ret = ret, !.seq = seq]
    /\ calls' = calls + 1
    /\ UNCHANGED <<org, driver>>

\* tile.place(organism)
CallPlace ==
    \E t \in {1}, o \in DOMAIN org :
        /\ occ' = place(occ, t, o)
        /\ GridReturn("place", <<t, o>>, "none", 1, <<>>)

\* tile.remove(organism)
CallRemove ==
    \E t \in {1}, o \in DOMAIN org : \E r \in {remove(occ, t, o)} :
        /\ occ' = r.occ
        /\ GridReturn("remove", <<t, o>>, r.exc, r.ret, <<>>)

\* map.get_tile(x, y)
CallGetTile ==
    \E x \in -1 .. Width, y \in -1 .. Height : \E r \in {get_tile(x, y)} :
        /\ occ' = occ
        /\ GridReturn("get_tile", <<x, y>>, r.exc, r.val, <<>>)

\* map.find(tile)
CallFind ==
    \E t \in {0, 3} \cup ForeignTiles :
        /\ occ' = occ
        /\ GridReturn("find", <<t>>, "none", find(t), <<>>)

\* map.get_neighbour(tile, range)
CallGetNeighbour ==
    \E t \in {0, 3} \cup ForeignTiles, rng \in 0 .. 1 : \E r \in {get_neighbour(t, rng)} :
        /\ occ' = occ
        /\ GridReturn("get_neighbour", <<t, rng>>, r.exc, 0, r.val)

GridNext ==
    \/ CallPlace
    \/ CallRemove
    \/ CallGetTile
    \/ CallFind
    \/ CallGetNeighbour

GridSpec == GridInit /\ [][GridNext]_vars

(***************************************************************************)
(* Properties of the map (GridSpec).                                       *)
(***************************************************************************)
\* The tiles of set S in row-major order (ascending index).
RECURSIVE RowMajor(_)
RowMajor(S) ==
    IF S = {} THEN <<>>
    ELSE LET m == CHOOSE m \in S : \A n \in S : m <= n IN <<m>> \o RowMajor(S \ {m})

\* Chebyshev distance between two tiles of the map.
Chebyshev(a, b) ==
    Max(Abs((a % Width) - (b % Width)), Abs((a \div Width) - (b \div Width)))

\* C27: get_neighbour on a tile of the map returns, in row-major order and
\* each once, the tiles at Chebyshev distance 1 .. r from it: never the
\* tile itself, nothing outside the map, and nothing at all for r = 0.
C27_NeighboursAreChebyshev ==
    (last.op = "get_neighbour" /\ last.args[1] \in Tiles) =>
        /\ exc = "none"
        /\ last.seq = RowMajor({t \in Tiles : Chebyshev(t, last.args[1]) \in 1 .. last.args[2]})

\* C28: get_neighbour on a tile that is not one of the map's own tile
\* objects raises the tile-not-found error (ValueError) and returns
\* nothing, also when the tile equals one of the map's tiles in position
\* and biome.
C28_ForeignTileNotFound ==
    (last.op = "get_neighbour" /\ last.args[1] \notin Tiles) =>
        /\ exc = "ValueError"
        /\ last.seq = <<>>

\* get_neighbour has just been called on a tile of another map that is the
\* equal of one of this map's tiles.
C28_Witness ==
    /\ last.op = "get_neighbour"
    /\ last.args[1] \in ForeignTiles
    /\ \E i \in Tiles : TileValue(i) = TileValue(last.args[1])

\* C29: get_tile(x, y) returns the tile at index y*width + x when 0 <= x <
\* width and 0 <= y < height, and raises the out-of-bounds error
\* (IndexError) for every other pair, negative coordinates included.
C29_GetTileBounds ==
    last.op = "get_tile" =>
        LET x == last.args[1]
            y == last.args[2]
        IN IF x \in 0 .. (Width - 1) /\ y \in 0 .. (Height - 1)
           THEN exc = "none" /\ last.ret = y * Width + x
           ELSE exc = "IndexError"

\* get_tile has just refused a negative coordinate whose index y*width + x
\* would have been that of a tile.
C29_Witness ==
    /\ last.op = "get_tile"
    /\ last.args[1] < 0
    /\ last.args[2] * Width + last.args[1] \in Tiles
    /\ exc = "IndexError"

\* A step that is a remove call for an organism the tile does not list.
RemoveAbsent ==
    /\ calls' = calls + 1
    /\ last'.op = "remove"
    /\ ~InList(occ[last'.args[1]], last'.args[2])

\* C30 as claimed: removing an organism a tile does not list changes
\* nothing, raises nothing and answers with the success result (1).
C30_RemoveAbsentIsSuccess ==
    [][RemoveAbsent => (occ' = occ /\ exc' = "none" /\ last'.ret = 1)]_vars

\* C30 as amended: removing an organism a tile does not list changes
\* nothing, raises nothing and answers -1, the result for a removal that
\* did not succeed; removing it again does the same.
C30_RemoveAbsentIsNoOp ==
    [][RemoveAbsent =>
          /\ occ' = occ /\ exc' = "none" /\ last'.ret = -1
          /\ remove(occ', last'.args[1], last'.args[2]).occ = occ'
          /\ remove(occ', last'.args[1], last'.args[2]).ret = -1]_vars

\* An organism has been removed from a tile a second time: the tile does
\* not list it and the answer was -1.
C30_Witness ==
    /\ last.op = "remove"
    /\ last.ret = -1
    /\ last.args = <<1, 1>>
    /\ ~InList(occ[1], 1)

(***************************************************************************)
(* Genome calls between two organisms' genomes (GenomeSpec).               *)
(***************************************************************************)
\* Genomes of two species with hunger and thirst thresholds 4 and
\* reproductive_crit 1: a reference, one faster, one short of energy, one of
\* age 0, one of the other species, one larger, and one of size 0 that is
\* short of energy.
PairGenomes ==
    {Genome("goober", 1, 1, 4, 4, 10, 1, 1, 1, 100, 1),
     Genome("goober", 2, 1, 4, 4, 10, 1, 1, 1, 100, 1),
     Genome("goober", 1, 1, 4, 4, 10, 1, 1, 1, 10, 1),
     Genome("goober", 1, 1, 4, 4, 10, 1, 1, 1, 100, 0),
     Genome("tree", 1, 1, 4, 4, 10, 1, 1, 1, 100, 1),
     Genome("goober", 1, 1, 4, 4, 10, 1, 16, 1, 100, 1),
     Genome("goober", 1, 1, 4, 4, 10, 1, 0, 1, 10, 1)}

Build(w, o, genome, tile) ==
    IF genome.species = "tree" THEN Tree_init(w, o, genome, tile, 0) ELSE Goober_init(w, o, genome, tile)

GenomeInit ==
    /\ \E ga \in PairGenomes, gb \in PairGenomes :
         LET w == Build(Build(EmptyWorld, 1, ga, 1), 2, gb, 2) IN
         /\ org = w.org
         /\ occ = w.occ
    /\ exc = "none"
    /\ last = NoCall
    /\ calls = 0
    /\ trees = <<>>
    /\ goobers = <<>>
    /\ pc = "genomes"
    /\ snap = <<>>
    /\ idx = 0
    /\ log = <<>>
    /\ start = {}

GenomeReturn(op, a, b, e, ret, seq) ==
    /\ calls < MaxCalls
    /\ exc' = e
    /\ last' = [NoCall EXCEPT !.op = op, !.o = a, !.arg = b, !.alive = org[a].alive, !.ret = ret, !.seq = seq]
    /\ calls' = calls + 1
    /\ UNCHANGED <<occ, driver>>

\* a.genome.reproduce(b.genome)
CallGenomeReproduce ==
    \E a \in DOMAIN org : \E b \in DOMAIN org \ {a} :
    \E r \in {Genome_reproduce(org[a].genome, org[b].genome)} :
        /\ org' = [org EXCEPT ![a].genome = r.self, ![b].genome = r.partner]
        /\ GenomeReturn("reproduce", a, b, r.exc, r.ret, <<>>)

\* a.genome.distance(b.genome); the value is recorded as <<num, den>>, and
\* infinity as <<1, 0>>.
CallDistance ==
    \E a \in DOMAIN org : \E b \in DOMAIN org \ {a} :
    \E d \in {distance(org[a].genome, org[b].genome)} :
        /\ org' = org
        /\ GenomeReturn("distance", a, b, d.exc, 0, IF d.inf THEN <<1, 0>> ELSE <<d.num, d.den>>)

\* a.genome.can_reproduce(b.genome); 1 for True, 0 for False.
CallCanReproduce ==
    \E a \in DOMAIN org : \E b \in DOMAIN org \ {a} :
    \E c \in {can_reproduce(org[a].genome, org[b].genome)} :
        /\ org' = org
        /\ GenomeReturn("can_reproduce", a, b, c.exc, IF c.val THEN 1 ELSE 0, <<>>)

GenomeNext ==
    \/ CallGenomeReproduce
    \/ CallDistance
    \/ CallCanReproduce

GenomeSpec == GenomeInit /\ [][GenomeNext]_vars

(***************************************************************************)
(* Properties of the genome (GenomeSpec).                                  *)
(***************************************************************************)
\* Two distance values are the same number.
SameDistance(d, e) ==
    IF d.inf \/ e.inf THEN d.inf /\ e.inf ELSE d.num * e.den = e.num * d.den

SameTraits(g, h) ==
    /\ g.species = h.species /\ g.speed = h.speed /\ g.vision = h.vision
    /\ g.hunger = h.hunger /\ g.thirst = h.thirst /\ g.max_age = h.max_age
    /\ g.reproductive_crit = h.reproductive_crit /\ g.size = h.size
    /\ g.fertility = h.fertility

\* The claim's cases of a pair that must not reproduce; the distance case
\* applies when the distance has a value.
Incompatible(g, h) ==
    \/ g.species # h.species
    \/ g.energy < 20 \/ h.energy < 20
    \/ g.age < 1 \/ h.age < 1
    \/ LET d == distance(g, h) IN d.exc = "none" /\ (d.inf \/ d.num > g.reproductive_crit * d.den)

\* C15: Genome.reproduce on a pair of different species, or with a parent
\* short of energy (< 20) or too young (age < 1), or too far apart in
\* traits, returns no child, raises nothing and leaves both energies as
\* they were.
C15_IncompatibleReproduceIsNone ==
    [][(calls' = calls + 1 /\ last'.op = "reproduce" /\ pc = "genomes"
            /\ Incompatible(org[last'.o].genome, org[last'.arg].genome))
        => (exc' = "none" /\ last'.ret = 0 /\ org' = org)]_vars

\* C16: Genome.reproduce on a compatible pair (same species, distance within
\* reproductive_crit, both energies >= 20, both ages >= 1) raises nothing,
\* returns a child, and leaves each parent's energy 10 lower.
C16_CompatibleReproduceCosts10 ==
    [][(calls' = calls + 1 /\ last'.op = "reproduce" /\ pc = "genomes"
            /\ ~Incompatible(org[last'.o].genome, org[last'.arg].genome)
            /\ distance(org[last'.o].genome, org[last'.arg].genome).exc = "none")
        => /\ exc' = "none"
           /\ last'.ret # 0
           /\ org'[last'.o].genome.energy = org[last'.o].genome.energy - 10
           /\ org'[last'.arg].genome.energy = org[last'.arg].genome.energy - 10]_vars

\* C17: a distance just computed is a value (no exception), equals the
\* distance computed the other way round, is zero when the two genomes have
\* the same species and traits, and is infinite when the species differ.
C17_DistanceSymmetric ==
    (last.op = "distance" /\ pc = "genomes") =>
        LET g == org[last.o].genome
            h == org[last.arg].genome
            d == [inf |-> last.seq[2] = 0, num |-> last.seq[1], den |-> last.seq[2]]
        IN /\ exc = "none"
           /\ distance(h, g).exc = "none"
           /\ SameDistance(d, distance(h, g))
           /\ SameTraits(g, h) => (~d.inf /\ d.num = 0)
           /\ g.species # h.species => d.inf

(***************************************************************************)
(* The driver (sim.py): init_entities, then run's fixed-step logic loop.   *)
(* pc is the loop the driver is in, snap the copy that loop iterates over, *)
(* idx the position in it.  log lists the calls made in the current tick   *)
(* ([op, o, pass]; a do_task logged in an update pass is the one update    *)
(* makes itself), start the organisms in the lists when the tick began.    *)
(***************************************************************************)
\* get_empty_tile: the candidates random.choice picks from.
get_empty_tile(w) == {t \in Tiles : biome(t) \notin Water /\ w.occ[t] = <<>>}

\* init_entities spawns TREE_COUNT trees, then GOOBER_COUNT goobers, each on
\* a tile get_empty_tile chose, and stops a loop when no tile is left.
NumLand == Cardinality(get_empty_tile(EmptyWorld))
NumTrees == Min(TREE_COUNT, NumLand)
NumGoobers == Min(GOOBER_COUNT, NumLand - NumTrees)

\* The world after the first k spawns, on the tiles and with the genomes
\* given per organism.
RECURSIVE Spawned(_, _, _)
Spawned(k, tile, genome) ==
    IF k = 0 THEN EmptyWorld
    ELSE IF k <= NumTrees
    THEN Tree_init(Spawned(k - 1, tile, genome), k, genome[k], tile[k], 0)
    ELSE Goober_init(Spawned(k - 1, tile, genome), k, genome[k], tile[k])

\* Each tile was one of get_empty_tile's candidates when it was chosen.
ChosenEmpty(tile) ==
    \A k \in DOMAIN tile : tile[k] \in get_empty_tile(EmptyWorld) /\ \A j \in 1 .. (k - 1) : tile[j] # tile[k]

RunInit ==
    /\ \E tile \in [1 .. (NumTrees + NumGoobers) -> LandTiles] :
       \E tg \in [1 .. NumTrees -> TreeGenomes] :
       \E gg \in [(NumTrees + 1) .. (NumTrees + NumGoobers) -> GooberGenomes] :
         LET w == Spawned(NumTrees + NumGoobers, tile, tg @@ gg) IN
         /\ ChosenEmpty(tile)
         /\ org = w.org
         /\ occ = w.occ
    /\ trees = [i \in 1 .. NumTrees |-> i]
    /\ goobers = [i \in 1 .. NumGoobers |-> NumTrees + i]
    /\ snap = [i \in 1 .. NumTrees |-> i]
    /\ start = 1 .. (NumTrees + NumGoobers)
    /\ exc = "none"
    /\ last = NoCall
    /\ calls = 0
    /\ pc = "update_trees"
    /\ idx = 1
    /\ log = <<>>

Range(s) == {s[i] : i \in 1 .. Len(s)}

\* A loop over the list itself: for t in trees.
PassItems_live(copy, live) == live

\* for t in trees[:] iterates over the copy made when the loop starts.
PassItems(copy, live) == copy

\* An update loop that leaves the dead in the list.
prune_never(lst, o, alive) == lst

\* if not t.alive: trees.remove(t)
prune(lst, o, alive) == IF ~alive THEN ListRemove(lst, o) ELSE lst

\* if isinstance(child, tree.Tree): trees.append(child)
admit(lst, child) == IF child # NoOrg THEN Append(lst, child) ELSE lst

Entry(op, o) == [op |-> op, o |-> o, pass |-> pc]

\* One iteration of an update loop (lines 110-113, 115-118): an exception
\* leaves run, and ends the program.
UpdateStep(o) ==
    \E r \in {update(W, o, LOGIC_DT)} : \E ok \in {r.exc = "none"} :
       /\ org' = r.w.org
       /\ occ' = r.w.occ
       /\ exc' = r.exc
       /\ log' = log \o <<Entry("update", o)>>
                     \o (IF org[o].alive THEN <<Entry("do_task", o)>> ELSE <<>>)
       /\ pc' = IF ok THEN pc ELSE "crashed"
       /\ idx' = IF ok THEN idx + 1 ELSE idx
       /\ trees' = IF ok /\ pc = "update_trees" THEN prune(trees, o, r.w.org[o].alive) ELSE trees
       /\ goobers' = IF ok /\ pc = "update_goobers" THEN prune(goobers, o, r.w.org[o].alive) ELSE goobers
       /\ UNCHANGED <<last, calls, snap, start>>

\* One iteration of a task loop (lines 121-124, 126-129).
TaskStep(o) ==
    \E r \in {do_task(W, o, get_task(org[o]))} : \E ok \in {r.exc = "none"} :
       /\ org' = r.w.org
       /\ occ' = r.w.occ
       /\ exc' = r.exc
       /\ log' = Append(log, Entry("do_task", o))
       /\ pc' = IF ok THEN pc ELSE "crashed"
       /\ idx' = IF ok THEN idx + 1 ELSE idx
       /\ trees' = IF ok /\ pc = "task_trees" THEN admit(trees, r.ret) ELSE trees
       /\ goobers' = IF ok /\ pc = "task_goobers" THEN admit(goobers, r.ret) ELSE goobers
       /\ UNCHANGED <<last, calls, snap, start>>

UpdateTree ==
    /\ pc = "update_trees"
    /\ idx <= Len(PassItems(snap, trees))
    /\ \E o \in {PassItems(snap, trees)[idx]} : UpdateStep(o)

UpdateGoober ==
    /\ pc = "update_goobers"
    /\ idx <= Len(PassItems(snap, goobers))
    /\ \E o \in {PassItems(snap, goobers)[idx]} : UpdateStep(o)

TaskTree ==
    /\ pc = "task_trees"
    /\ idx <= Len(PassItems(snap, trees))
    /\ \E o \in {PassItems(snap, trees)[idx]} : TaskStep(o)

TaskGoober ==
    /\ pc = "task_goobers"
    /\ idx <= Len(PassItems(snap, goobers))
    /\ \E o \in {PassItems(snap, goobers)[idx]} : TaskStep(o)

\* The list the loop at pc iterates over, and the loop after it.
ListAt(p) == IF p \in {"update_trees", "task_trees"} THEN trees ELSE goobers

After(p) ==
    IF p = "update_trees" THEN "update_goobers"
    ELSE IF p = "update_goobers" THEN "task_trees"
    ELSE IF p = "task_trees" THEN "task_goobers"
    ELSE "tick_end"

Passes == {"update_trees", "update_goobers", "task_trees", "task_goobers"}

PassDone == pc \in Passes /\ idx > Len(PassItems(snap, ListAt(pc)))

\* A loop ends and the next one starts on a fresh copy of its list.
NextPass ==
    /\ PassDone
    /\ pc' = After(pc)
    /\ snap' = IF After(pc) = "tick_end" THEN <<>> ELSE ListAt(After(pc))
    /\ idx' = 1
    /\ UNCHANGED <<org, occ, exc, last, calls, trees, goobers, log, start>>

\* logic_accumulator -= LOGIC_DT; the while loop runs the next tick.
NextTick ==
    /\ pc = "tick_end"
    /\ pc' = "update_trees"
    /\ snap' = trees
    /\ idx' = 1
    /\ log' = <<>>
    /\ start' = Range(trees) \cup Range(goobers)
    /\ UNCHANGED <<org, occ, exc, last, calls, trees, goobers>>

RunNext ==
    \/ UpdateTree
    \/ UpdateGoober
    \/ TaskTree
    \/ TaskGoober
    \/ NextPass
    \/ NextTick

RunSpec == RunInit /\ [][RunNext]_vars

(***************************************************************************)
(* Properties of the driver (RunSpec).                                     *)
(***************************************************************************)
Population == Range(trees) \cup Range(goobers)

Listed == {occ[t][i] : <<t, i>> \in {p \in Tiles \X (1 .. Cardinality(DOMAIN org)) : p[2] <= Len(occ[p[1]])}}

\* C5: within a tick no do_task call comes before an update call.
C5_UpdatesBeforeTasks ==
    \A i \in 1 .. Len(log) : \A j \in 1 .. Len(log) :
        i < j => ~(log[i].op = "do_task" /\ log[j].op = "update")

\* C7: when a tick has finished, no tile's occupancy lists a dead organism.
C7_DeadLeaveTiles ==
    pc = "tick_end" => \A o \in Listed : org[o].alive

Visited(p) ==
    LET mine == SelectSeq(log, LAMBDA e :
                    e.pass = p /\ e.op = (IF p \in {"update_trees", "update_goobers"} THEN "update" ELSE "do_task"))
    IN [i \in 1 .. Len(mine) |-> mine[i].o]

\* C10: each loop visits the organisms that were in its list when it began
\* (snap), each once and in order, whatever is removed meanwhile, and
\* finishes only after the last of them; and no call of a tick is made on
\* an organism that was not in a list when the tick began.
C10_PassVisitsItsList ==
    /\ pc \in Passes => Visited(pc) = SubSeq(snap, 1, idx - 1)
    /\ PassDone => idx = Len(snap) + 1
    /\ \A i \in 1 .. Len(log) : log[i].o \in start

\* C33: within a tick, do_task runs at most once for each organism.
C33_OneTaskPerTick ==
    \A o \in DOMAIN org :
        Cardinality({i \in 1 .. Len(log) : log[i].op = "do_task" /\ log[i].o = o}) <= 1

\* An update loop over two trees has finished, and it removed one of them
\* from the list while it ran.
C10_Witness ==
    /\ PassDone
    /\ pc = "update_trees"
    /\ Len(snap) >= 2
    /\ Len(trees) < Len(snap)
    /\ Visited(pc) = snap

====
